---- MODULE Spec2Model ----
(***************************************************************************)
(* Schedule service of fizteh-radio (package service, type Schedule).     *)
(*                                                                         *)
(* Every method of Schedule is a sequence of calls to the schedule store, *)
(* the media store and the two notification channels.  One action of the  *)
(* model is one such call together with the local code that follows it up *)
(* to the next call, so that calls of concurrent requests interleave      *)
(* exactly where the Go code lets them.                                   *)
(*                                                                         *)
(* Specifications: Spec runs the calls that change the schedule            *)
(* concurrently from an empty schedule; SpecSeq runs every call one at a   *)
(* time; SpecStored runs every call concurrently on a schedule of two      *)
(* stored segments; SpecStalled is SpecSeq beside a consumer that never    *)
(* reads the sinks, with fair scheduling of the requests.                  *)
(***************************************************************************)
EXTENDS Integers, Naturals, Sequences, FiniteSets, TLC

VARIABLES
    schedule,     \* rows of the schedule store: the stored segments
    protected,    \* ids of the store's separate protection relation
    nextId,       \* next id the store assigns in SaveSegment
    closedRange,  \* the store's range query also returns touching segments
    proc,         \* per request: the frame of the running Schedule method
    allSegmentsChan,        \* payloads buffered in the all-segments sink
    protectedSegmentsChan,  \* signals buffered in the protected sink
    consumer,     \* the downstream consumer: "reading" or "stalled"
    sendOrder     \* requests in flight whose payload went to allSegmentsChan,
                  \* in the order of their sends

vars == <<schedule, protected, nextId, closedRange, proc,
          allSegmentsChan, protectedSegmentsChan, consumer, sendOrder>>

\* the two sinks and their consumer
sinks == <<allSegmentsChan, protectedSegmentsChan, consumer, sendOrder>>

----------------------------------------------------------------------------
(* Bounds of the model *)

\* latest start of a requested segment
MaxStart == 1
\* segments saved in a run of requests that execute one at a time
MaxId == 3
\* segments saved in a run of concurrent requests
MaxIdConcurrent == 2
\* items a sink buffers for a consumer that does not read
SinkCapacity == 1

Procs == {"r1", "r2"}

\* media storage: id -> duration; media 2 does not exist
MediaTable == (1 :> 2)
\* <<beginCut, stopCut>> of the requests: inside the media, and each way out
ValidCuts == {<<0, 0>>, <<0, 1>>, <<0, 2>>}
\* the longest valid cut: the duration of media 1
MaxCut == MediaTable[1]
InvalidCuts == {<<1, 0>>, <<0, 3>>, <<3, 0>>, <<0 - 1, 0>>, <<0, 0 - 1>>}
Starts == 0 .. MaxStart
Ids == 1 .. MaxId

----------------------------------------------------------------------------
(* models.Segment *)

NoSeg == [ID |-> 0, MediaID |-> 0, Start |-> 0, BeginCut |-> 0, StopCut |-> 0,
          Protected |-> FALSE]

\* Segment.End(): start + (stopCut - beginCut)
End(s) == s.Start + (s.StopCut - s.BeginCut)

Segment(m, t, c, pr) ==
    [ID |-> 0, MediaID |-> m, Start |-> t, BeginCut |-> c[1], StopCut |-> c[2],
     Protected |-> pr]

\* the requests: every placement of a valid segment, one request for each
\* invalid cut and one for a media that does not exist
SegmentInputs ==
    { Segment(1, t, c, pr) : t \in Starts, c \in ValidCuts, pr \in BOOLEAN }
    \cup { Segment(1, 0, c, FALSE) : c \in InvalidCuts }
    \cup { Segment(2, 0, <<0, 1>>, FALSE) }

Max(a, b) == IF a >= b THEN a ELSE b
Min(a, b) == IF a <= b THEN a ELSE b

\* two segments share a span of time of non-zero width
TrueOverlap(a, b) == Max(a.Start, b.Start) < Min(End(a), End(b))

----------------------------------------------------------------------------
(* service errors *)

ErrNil == "nil"
ErrMediaNotFound == "ErrMediaNotFound"
ErrCutOutOfBounds == "ErrCutOutOfBounds"
ErrBeginAfterStop == "ErrBeginAfterStop"
ErrSegmentIntersection == "ErrSegmentIntersection"
ErrSegmentNotFound == "ErrSegmentNotFound"
StorageError == "StorageError"

----------------------------------------------------------------------------
(* ScheduleStorage: the store behind the interface *)

\* rows whose interval intersects [start, stop); a store comparing with
\* closed bounds also returns the rows that only touch the interval
StoreScheduleCut(start, stop) ==
    { s \in schedule :
        \/ Max(s.Start, start) < Min(End(s), stop)
        \/ closedRange /\ s.Start <= stop /\ End(s) >= start }

StoreHas(id) == \E s \in schedule : s.ID = id

StoreRow(id) == CHOOSE s \in schedule : s.ID = id

StoreIsSegmentProtected(id) == id \in protected

\* rows removed by ClearSchedule(stamp)
StoreClearSet(stamp) == { s \in schedule : s.Start >= stamp }

\* a set of rows as the sequence the store returns, by ascending id
RECURSIVE RowsToSeq(_)
RowsToSeq(S) ==
    IF S = {} THEN <<>>
    ELSE LET m == CHOOSE s \in S : \A t \in S : s.ID <= t.ID
         IN <<m>> \o RowsToSeq(S \ {m})

----------------------------------------------------------------------------
(* Frames *)

\* the locals of a running method: segment, id, from, start and stop are its
\* arguments (start and stop those of ScheduleCut), res the segments of
\* ScheduleCut or the segment of Segment, i the loop index, delErr the error
\* the displacement loop's last DeleteSegment returned; seen is the store's
\* next id when the range was fetched and expect the request whose returned
\* id is being fetched back
IdleFrame ==
    [pc |-> "idle", op |-> "none", segment |-> NoSeg, id |-> 0, from |-> 0,
     start |-> 0, stop |-> 0, res |-> <<>>, i |-> 0, isProt |-> FALSE,
     newId |-> 0, err |-> ErrNil, delErr |-> ErrNil, seen |-> 0,
     expect |-> NoSeg, log |-> <<>>]

\* one entry of a frame's record of what its call did to the store and to
\* the sinks: a successful store write ("save", "protect", "delete") with the
\* row written, a "notify" on protectedSegmentsChan or a "send" on
\* allSegmentsChan, and the method that made it
Ev(ev, by, seg) == [ev |-> ev, by |-> by, seg |-> seg]

Init ==
    /\ schedule = {}
    /\ protected = {}
    /\ nextId = 1
    /\ closedRange \in BOOLEAN
    /\ proc = [p \in Procs |-> IdleFrame]
    /\ allSegmentsChan = 0
    /\ protectedSegmentsChan = 0
    /\ consumer = "reading"
    /\ sendOrder = <<>>

Running(op) == { q \in Procs : proc[q].op = op }

AllIdle == \A q \in Procs : proc[q].pc = "idle"

Set(p, f) == proc' = [proc EXCEPT ![p] = f]

Done(p, err) == Set(p, [proc[p] EXCEPT !.pc = "done", !.err = err])

----------------------------------------------------------------------------
(* package chans: Send and Notify on a sink *)

\* mutant: a send waits until the sink has room
SinkReadyWhenRoom(buffered) ==
    consumer = "reading" \/ buffered < SinkCapacity

\* a send on a sink returns: the item is handed to a reading consumer or
\* buffered, and a full sink applies its overflow policy instead of waiting
SinkReady(buffered) == TRUE

\* the items a sink buffers after a send
SinkAfter(buffered) ==
    IF consumer = "reading" THEN buffered
    ELSE IF buffered < SinkCapacity THEN buffered + 1
    ELSE buffered

\* chans.Send(s.allSegmentsChan, segment) by request p
SendAll(p) ==
    /\ SinkReady(allSegmentsChan)
    /\ allSegmentsChan' = SinkAfter(allSegmentsChan)
    /\ sendOrder' = Append(sendOrder, p)
    /\ UNCHANGED <<protectedSegmentsChan, consumer>>

\* chans.Notify(s.protectedSegmentsChan)
NotifyProtected ==
    /\ SinkReady(protectedSegmentsChan)
    /\ protectedSegmentsChan' = SinkAfter(protectedSegmentsChan)
    /\ UNCHANGED <<allSegmentsChan, consumer, sendOrder>>

----------------------------------------------------------------------------
(* Schedule.NewSegment *)

\* mutant: beginCut is not compared with the duration
CutOutOfBoundsStopOnly(duration, segment) ==
    \/ duration < segment.StopCut
    \/ segment.BeginCut < 0
    \/ segment.StopCut < 0

\* "Check cut correctness", first condition
CutOutOfBounds(duration, segment) ==
    \/ duration < segment.StopCut
    \/ duration < segment.BeginCut
    \/ segment.BeginCut < 0
    \/ segment.StopCut < 0

\* "Check cut correctness", second condition
BeginAfterStop(segment) == segment.BeginCut > segment.StopCut

\* mutant: the conflict test tolerates one intersecting segment
HasIntersectionsTwo(res) == Len(res) > 1

\* the unprotected path's conflict test: len(res) > 0
HasIntersections(res) == Len(res) > 0

\* mutant: the index IndexFunc returns is tested with > 0, which misses a
\* protected segment in the first place of res
HasProtectedAfterFirst(res) == \E j \in 2 .. Len(res) : res[j].Protected

\* slices.IndexFunc(res, Protected) != -1
HasProtected(res) == \E j \in 1 .. Len(res) : res[j].Protected

\* mutant: the second comparison is made between the two starts
SkipDeletionSameStart(segm, segment) ==
    \/ End(segm) = segment.Start
    \/ segm.Start = segment.Start

\* the displacement loop's continue condition
SkipDeletion(segm, segment) ==
    \/ End(segm) = segment.Start
    \/ segm.Start = End(segm)

CallNewSegment(p, maxId) ==
    /\ proc[p].pc = "idle"
    /\ nextId + Cardinality(Running("NewSegment")) <= maxId
    /\ \E segment \in SegmentInputs :
        Set(p, [IdleFrame EXCEPT !.pc = "ns_media", !.op = "NewSegment",
                                 !.segment = segment])
    /\ UNCHANGED <<schedule, protected, nextId, closedRange, sinks>>

\* mediaStorage.Media and the validation of the cuts
NS_Media(p) ==
    /\ proc[p].pc = "ns_media"
    /\ LET segment == proc[p].segment IN
        \/ Done(p, StorageError)
        \/ /\ segment.MediaID \notin DOMAIN MediaTable
           /\ Done(p, ErrMediaNotFound)
        \/ /\ segment.MediaID \in DOMAIN MediaTable
           /\ IF CutOutOfBounds(MediaTable[segment.MediaID], segment)
                THEN Done(p, ErrCutOutOfBounds)
              ELSE IF BeginAfterStop(segment)
                THEN Done(p, ErrBeginAfterStop)
              ELSE Set(p, [proc[p] EXCEPT !.pc = "sc_range",
                              !.start = segment.Start, !.stop = End(segment)])
    /\ UNCHANGED <<schedule, protected, nextId, closedRange, sinks>>

\* protected path: the loop over res from index f.i, up to its next call of
\* DeleteSegment or, past the last element, up to SaveSegment
RECURSIVE Loop(_)
Loop(f) ==
    IF f.i > Len(f.res)
      THEN [f EXCEPT !.pc = "ns_save"]
    ELSE IF SkipDeletion(f.res[f.i], f.segment)
      THEN Loop([f EXCEPT !.i = f.i + 1])
    ELSE [f EXCEPT !.pc = "ds_isprot", !.id = f.res[f.i].ID]

\* mutant: the unprotected path rejects only an intersection with a protected
\* segment
DecideOnlyProtectedConflicts(f) ==
    IF HasProtected(f.res)
      THEN [f EXCEPT !.pc = "done", !.err = ErrSegmentIntersection]
    ELSE IF ~f.segment.Protected
      THEN [f EXCEPT !.pc = "ns_send_u"]
    ELSE Loop([f EXCEPT !.i = 1])

\* the two conflict tests on res, made when ScheduleCut has returned
Decide(f) ==
    IF ~f.segment.Protected
      THEN IF HasIntersections(f.res)
             THEN [f EXCEPT !.pc = "done", !.err = ErrSegmentIntersection]
             ELSE [f EXCEPT !.pc = "ns_send_u"]
    ELSE IF HasProtected(f.res)
      THEN [f EXCEPT !.pc = "done", !.err = ErrSegmentIntersection]
    ELSE Loop([f EXCEPT !.i = 1])

\* where Schedule.ScheduleCut returns to: the API caller, or NewSegment
AfterScheduleCut(f) ==
    IF f.op = "ScheduleCut"
      THEN [f EXCEPT !.pc = "done", !.err = ErrNil]
      ELSE Decide(f)

\* the API's call of ScheduleCut(start, stop)
CallScheduleCut(p) ==
    /\ proc[p].pc = "idle"
    /\ \E start \in Starts : \E stop \in start .. MaxStart + MaxCut :
        Set(p, [IdleFrame EXCEPT !.pc = "sc_range", !.op = "ScheduleCut",
                                 !.start = start, !.stop = stop])
    /\ UNCHANGED <<schedule, protected, nextId, closedRange, sinks>>

\* Schedule.ScheduleCut: schStorage.ScheduleCut
SC_Range(p) ==
    /\ proc[p].pc = "sc_range"
    /\ \/ Done(p, StorageError)
       \/ LET res == RowsToSeq(StoreScheduleCut(proc[p].start, proc[p].stop))
              f == [proc[p] EXCEPT !.res = res, !.i = 1, !.seen = nextId]
          IN IF Len(res) = 0
               THEN Set(p, AfterScheduleCut(f))
               ELSE Set(p, [f EXCEPT !.pc = "sc_isprot"])
    /\ UNCHANGED <<schedule, protected, nextId, closedRange, sinks>>

\* mutant: when the protection of segments[i] cannot be fetched, the segments
\* annotated so far are returned without an error
SC_IsProtPartial(p) ==
    /\ proc[p].pc = "sc_isprot"
    /\ LET i == proc[p].i
           id == proc[p].res[i].ID
       IN \/ Set(p, AfterScheduleCut([proc[p] EXCEPT
                                        !.res = SubSeq(@, 1, i - 1)]))
          \/ /\ StoreHas(id)
             /\ LET f == [proc[p] EXCEPT
                            !.res[i].Protected = StoreIsSegmentProtected(id),
                            !.i = i + 1]
                IN IF i = Len(proc[p].res)
                     THEN Set(p, AfterScheduleCut(f))
                     ELSE Set(p, f)
    /\ UNCHANGED <<schedule, protected, nextId, closedRange, sinks>>

\* Schedule.ScheduleCut: schStorage.IsSegmentProtected of segments[i]
SC_IsProt(p) ==
    /\ proc[p].pc = "sc_isprot"
    /\ LET i == proc[p].i
           id == proc[p].res[i].ID
       IN \/ Set(p, [proc[p] EXCEPT !.pc = "done", !.err = StorageError,
                                    !.res = <<>>])
          \/ /\ ~StoreHas(id)
             /\ Set(p, [proc[p] EXCEPT !.pc = "done", !.err = StorageError,
                                       !.res = <<>>])
          \/ /\ StoreHas(id)
             /\ LET f == [proc[p] EXCEPT
                            !.res[i].Protected = StoreIsSegmentProtected(id),
                            !.i = i + 1]
                IN IF i = Len(proc[p].res)
                     THEN Set(p, AfterScheduleCut(f))
                     ELSE Set(p, f)
    /\ UNCHANGED <<schedule, protected, nextId, closedRange, sinks>>

\* unprotected path: chans.Send(s.allSegmentsChan, segment)
NS_SendU(p) ==
    /\ proc[p].pc = "ns_send_u"
    /\ SendAll(p)
    /\ Set(p, [proc[p] EXCEPT !.pc = "ns_save_u",
                  !.log = Append(@, Ev("send", "NewSegment", proc[p].segment))])
    /\ UNCHANGED <<schedule, protected, nextId, closedRange>>

\* the row SaveSegment inserts
NewRow(segment) == [segment EXCEPT !.ID = nextId, !.Protected = FALSE]

\* unprotected path: schStorage.SaveSegment
NS_SaveU(p) ==
    /\ proc[p].pc = "ns_save_u"
    /\ \/ /\ Done(p, StorageError)
          /\ UNCHANGED <<schedule, nextId>>
       \/ /\ schedule' = schedule \cup {NewRow(proc[p].segment)}
          /\ nextId' = nextId + 1
          /\ Set(p, [proc[p] EXCEPT !.pc = "done", !.err = ErrNil,
                        !.newId = nextId,
                        !.log = Append(@, Ev("save", "NewSegment",
                                         NewRow(proc[p].segment)))])
    /\ UNCHANGED <<protected, closedRange, sinks>>

\* protected path: schStorage.SaveSegment
NS_Save(p) ==
    /\ proc[p].pc = "ns_save"
    /\ \/ /\ Done(p, StorageError)
          /\ UNCHANGED <<schedule, nextId>>
       \/ /\ schedule' = schedule \cup {NewRow(proc[p].segment)}
          /\ nextId' = nextId + 1
          /\ Set(p, [proc[p] EXCEPT !.pc = "ns_protect", !.newId = nextId,
                        !.log = Append(@, Ev("save", "NewSegment",
                                         NewRow(proc[p].segment)))])
    /\ UNCHANGED <<protected, closedRange, sinks>>

\* mutant: after ProtectSegment the payload is sent without the signal
NS_ProtectThenSend(p) ==
    /\ proc[p].pc = "ns_protect"
    /\ LET id == proc[p].newId IN
        \/ /\ Done(p, StorageError)
           /\ UNCHANGED protected
        \/ /\ ~StoreHas(id)
           /\ Done(p, StorageError)
           /\ UNCHANGED protected
        \/ /\ StoreHas(id)
           /\ protected' = protected \cup {id}
           /\ Set(p, [proc[p] EXCEPT !.pc = "ns_send",
                         !.log = Append(@, Ev("protect", "NewSegment",
                                         StoreRow(id)))])
    /\ UNCHANGED <<schedule, nextId, closedRange, sinks>>

\* protected path: schStorage.ProtectSegment
NS_Protect(p) ==
    /\ proc[p].pc = "ns_protect"
    /\ LET id == proc[p].newId IN
        \/ /\ Done(p, StorageError)
           /\ UNCHANGED protected
        \/ /\ ~StoreHas(id)
           /\ Done(p, StorageError)
           /\ UNCHANGED protected
        \/ /\ StoreHas(id)
           /\ protected' = protected \cup {id}
           /\ Set(p, [proc[p] EXCEPT !.pc = "ns_notify",
                         !.log = Append(@, Ev("protect", "NewSegment",
                                         StoreRow(id)))])
    /\ UNCHANGED <<schedule, nextId, closedRange, sinks>>

\* protected path: chans.Notify(s.protectedSegmentsChan)
NS_Notify(p) ==
    /\ proc[p].pc = "ns_notify"
    /\ NotifyProtected
    /\ Set(p, [proc[p] EXCEPT !.pc = "ns_send",
                  !.log = Append(@, Ev("notify", "NewSegment", NoSeg))])
    /\ UNCHANGED <<schedule, protected, nextId, closedRange>>

\* protected path: chans.Send(s.allSegmentsChan, segment)
NS_Send(p) ==
    /\ proc[p].pc = "ns_send"
    /\ SendAll(p)
    /\ Set(p, [proc[p] EXCEPT !.pc = "done", !.err = ErrNil,
                  !.log = Append(@, Ev("send", "NewSegment", proc[p].segment))])
    /\ UNCHANGED <<schedule, protected, nextId, closedRange>>

----------------------------------------------------------------------------
(* Schedule.Segment *)

CallSegment(p) ==
    /\ proc[p].pc = "idle"
    /\ \E id \in Ids :
        Set(p, [IdleFrame EXCEPT !.pc = "sg_segment", !.op = "Segment",
                                 !.id = id])
    /\ UNCHANGED <<schedule, protected, nextId, closedRange, sinks>>

\* the caller of a NewSegment that returned an id fetches that id back
CallSegmentOfNew(p) ==
    /\ proc[p].pc = "done" /\ proc[p].op = "NewSegment"
    /\ proc[p].err = ErrNil
    /\ Set(p, [IdleFrame EXCEPT !.pc = "sg_segment", !.op = "Segment",
                                !.id = proc[p].newId,
                                !.expect = proc[p].segment])
    /\ sendOrder' = SelectSeq(sendOrder, LAMBDA q : q # p)
    /\ UNCHANGED <<schedule, protected, nextId, closedRange,
                   allSegmentsChan, protectedSegmentsChan, consumer>>

\* schStorage.Segment
SG_Segment(p) ==
    /\ proc[p].pc = "sg_segment"
    /\ LET id == proc[p].id IN
        \/ Done(p, StorageError)
        \/ /\ ~StoreHas(id)
           /\ Done(p, ErrSegmentNotFound)
        \/ /\ StoreHas(id)
           /\ Set(p, [proc[p] EXCEPT !.pc = "sg_isprot",
                                     !.res = <<StoreRow(id)>>])
    /\ UNCHANGED <<schedule, protected, nextId, closedRange, sinks>>

\* mutant: the fetched flag is not assigned to the segment
SG_IsProtUnassigned(p) ==
    /\ proc[p].pc = "sg_isprot"
    /\ LET id == proc[p].id IN
        \/ Set(p, [proc[p] EXCEPT !.pc = "done", !.err = StorageError,
                                  !.res = <<>>])
        \/ /\ ~StoreHas(id)
           /\ Set(p, [proc[p] EXCEPT !.pc = "done", !.err = StorageError,
                                     !.res = <<>>])
        \/ /\ StoreHas(id)
           /\ Set(p, [proc[p] EXCEPT !.pc = "done", !.err = ErrNil])
    /\ UNCHANGED <<schedule, protected, nextId, closedRange, sinks>>

\* schStorage.IsSegmentProtected and segment.Protected = isProt
SG_IsProt(p) ==
    /\ proc[p].pc = "sg_isprot"
    /\ LET id == proc[p].id IN
        \/ Set(p, [proc[p] EXCEPT !.pc = "done", !.err = StorageError,
                                  !.res = <<>>])
        \/ /\ ~StoreHas(id)
           /\ Set(p, [proc[p] EXCEPT !.pc = "done", !.err = StorageError,
                                     !.res = <<>>])
        \/ /\ StoreHas(id)
           /\ Set(p, [proc[p] EXCEPT
                         !.pc = "done", !.err = ErrNil,
                         !.res[1].Protected = StoreIsSegmentProtected(id)])
    /\ UNCHANGED <<schedule, protected, nextId, closedRange, sinks>>

----------------------------------------------------------------------------
(* Schedule.DeleteSegment *)

\* mutant: the displacement loop stops at ErrSegmentNotFound as well
DeleteReturnNotFoundAborts(f, err) ==
    IF f.op = "DeleteSegment"
      THEN [f EXCEPT !.pc = "done", !.err = err]
    ELSE IF err = ErrNil
      THEN Loop([f EXCEPT !.i = f.i + 1, !.delErr = err])
    ELSE [f EXCEPT !.pc = "done", !.err = StorageError, !.delErr = err]

\* mutant: the displacement loop goes on after any error of DeleteSegment
DeleteReturnAnyError(f, err) ==
    IF f.op = "DeleteSegment"
      THEN [f EXCEPT !.pc = "done", !.err = err]
      ELSE Loop([f EXCEPT !.i = f.i + 1, !.delErr = err])

\* the frame after DeleteSegment returned err: to the API caller, or into
\* the displacement loop of NewSegment
DeleteReturn(f, err) ==
    IF f.op = "DeleteSegment"
      THEN [f EXCEPT !.pc = "done", !.err = err]
    ELSE IF err \in {ErrNil, ErrSegmentNotFound}
      THEN Loop([f EXCEPT !.i = f.i + 1, !.delErr = err])
    ELSE [f EXCEPT !.pc = "done", !.err = StorageError, !.delErr = err]

CallDeleteSegment(p) ==
    /\ proc[p].pc = "idle"
    /\ \E id \in Ids :
        Set(p, [IdleFrame EXCEPT !.pc = "ds_isprot", !.op = "DeleteSegment",
                                 !.id = id])
    /\ UNCHANGED <<schedule, protected, nextId, closedRange, sinks>>

\* schStorage.IsSegmentProtected
DS_IsProt(p) ==
    /\ proc[p].pc = "ds_isprot"
    /\ LET id == proc[p].id IN
        \/ Set(p, DeleteReturn(proc[p], StorageError))
        \/ /\ ~StoreHas(id)
           /\ Set(p, DeleteReturn(proc[p], ErrSegmentNotFound))
        \/ /\ StoreHas(id)
           /\ Set(p, [proc[p] EXCEPT !.pc = "ds_delete",
                         !.isProt = StoreIsSegmentProtected(id)])
    /\ UNCHANGED <<schedule, protected, nextId, closedRange, sinks>>

\* schStorage.DeleteSegment
DS_Delete(p) ==
    /\ proc[p].pc = "ds_delete"
    /\ LET id == proc[p].id IN
        \/ /\ Set(p, DeleteReturn(proc[p], StorageError))
           /\ UNCHANGED <<schedule, protected>>
        \/ /\ ~StoreHas(id)
           /\ Set(p, DeleteReturn(proc[p], ErrSegmentNotFound))
           /\ UNCHANGED <<schedule, protected>>
        \/ /\ StoreHas(id)
           /\ schedule' = schedule \ {StoreRow(id)}
           /\ protected' = protected \ {id}
           /\ LET row == [StoreRow(id) EXCEPT !.Protected = id \in protected]
                  f == [proc[p] EXCEPT
                        !.log = Append(@, Ev("delete", "DeleteSegment", row))]
              IN IF proc[p].isProt
                   THEN Set(p, [f EXCEPT !.pc = "ds_notify"])
                   ELSE Set(p, DeleteReturn(f, ErrNil))
    /\ UNCHANGED <<nextId, closedRange, sinks>>

\* chans.Notify(s.protectedSegmentsChan)
DS_Notify(p) ==
    /\ proc[p].pc = "ds_notify"
    /\ LET f == [proc[p] EXCEPT
                    !.log = Append(@, Ev("notify", "DeleteSegment", NoSeg))]
       IN Set(p, DeleteReturn(f, ErrNil))
    /\ NotifyProtected
    /\ UNCHANGED <<schedule, protected, nextId, closedRange>>

----------------------------------------------------------------------------
(* Schedule.ClearSchedule *)

\* log entries for the rows a clear removed, by ascending id
RECURSIVE DeleteEvents(_)
DeleteEvents(rows) ==
    IF Len(rows) = 0 THEN <<>>
    ELSE <<Ev("delete", "ClearSchedule",
              [Head(rows) EXCEPT !.Protected = Head(rows).ID \in protected])>>
         \o DeleteEvents(Tail(rows))

CallClearSchedule(p) ==
    /\ proc[p].pc = "idle"
    /\ \E from \in 0 .. MaxStart :
        Set(p, [IdleFrame EXCEPT !.pc = "cs_clear", !.op = "ClearSchedule",
                                 !.from = from])
    /\ UNCHANGED <<schedule, protected, nextId, closedRange, sinks>>

\* mutant: the error of schStorage.ClearSchedule is dropped
CS_ClearErrorDropped(p) ==
    /\ proc[p].pc = "cs_clear"
    /\ LET all == StoreClearSet(proc[p].from) IN
        \E gone \in SUBSET all :
          /\ schedule' = schedule \ gone
          /\ protected' = protected \ { s.ID : s \in gone }
          /\ Set(p, [proc[p] EXCEPT
                        !.pc = "done",
                        !.err = ErrNil,
                        !.log = DeleteEvents(RowsToSeq(gone))])
    /\ UNCHANGED <<nextId, closedRange, sinks>>

\* schStorage.ClearSchedule; a clear that faults may have removed a part
CS_Clear(p) ==
    /\ proc[p].pc = "cs_clear"
    /\ LET all == StoreClearSet(proc[p].from) IN
        \E gone \in SUBSET all :
          /\ schedule' = schedule \ gone
          /\ protected' = protected \ { s.ID : s \in gone }
          /\ Set(p, [proc[p] EXCEPT
                        !.pc = "done",
                        !.err = IF gone = all THEN ErrNil ELSE StorageError,
                        !.log = DeleteEvents(RowsToSeq(gone))])
    /\ UNCHANGED <<nextId, closedRange, sinks>>

----------------------------------------------------------------------------

\* the method returned to its caller; the request's frame is gone
Return(p) ==
    /\ proc[p].pc = "done"
    /\ Set(p, IdleFrame)
    /\ sendOrder' = SelectSeq(sendOrder, LAMBDA q : q # p)
    /\ UNCHANGED <<schedule, protected, nextId, closedRange,
                   allSegmentsChan, protectedSegmentsChan, consumer>>

Step(p) ==
    \/ NS_Media(p) \/ SC_Range(p) \/ SC_IsProt(p)
    \/ NS_SendU(p) \/ NS_SaveU(p) \/ NS_Save(p)
    \/ NS_Protect(p) \/ NS_Notify(p) \/ NS_Send(p)
    \/ DS_IsProt(p) \/ DS_Delete(p) \/ DS_Notify(p)
    \/ CS_Clear(p) \/ Return(p)

\* the calls that change the schedule
Call(p, maxId) ==
    CallNewSegment(p, maxId) \/ CallDeleteSegment(p) \/ CallClearSchedule(p)

\* the calls that read the schedule, and the steps of Segment
Query(p) == CallScheduleCut(p) \/ CallSegment(p)

QueryStep(p) == SG_Segment(p) \/ SG_IsProt(p)

\* requests that change the schedule arrive and run concurrently
Next == \E p \in Procs : Call(p, MaxIdConcurrent) \/ Step(p)

Spec == Init /\ [][Next]_vars

\* requests run one at a time: a call starts only when no other is running
NextSeq ==
    \E p \in Procs :
        \/ AllIdle /\ (Call(p, MaxId) \/ Query(p))
        \/ Step(p) \/ QueryStep(p) \/ CallSegmentOfNew(p)

SpecSeq == Init /\ [][NextSeq]_vars

\* two segments are stored, the later one protected or not
InitStored ==
    /\ schedule = { [Segment(1, 0, <<0, 1>>, FALSE) EXCEPT !.ID = 1],
                    [Segment(1, 1, <<0, 1>>, FALSE) EXCEPT !.ID = 2] }
    /\ protected \in {{}, {2}}
    /\ nextId = 3
    /\ closedRange \in BOOLEAN
    /\ proc = [p \in Procs |-> IdleFrame]
    /\ allSegmentsChan = 0
    /\ protectedSegmentsChan = 0
    /\ consumer = "reading"
    /\ sendOrder = <<>>

\* requests of every kind arrive and run concurrently on a stored schedule
NextStored ==
    \E p \in Procs :
        \/ Call(p, MaxId) \/ Query(p)
        \/ Step(p) \/ QueryStep(p)

SpecStored == InitStored /\ [][NextStored]_vars

\* the consumer of the two sinks never reads
InitStalled ==
    /\ schedule = {}
    /\ protected = {}
    /\ nextId = 1
    /\ closedRange \in BOOLEAN
    /\ proc = [p \in Procs |-> IdleFrame]
    /\ allSegmentsChan = 0
    /\ protectedSegmentsChan = 0
    /\ consumer = "stalled"
    /\ sendOrder = <<>>

\* requests run one at a time beside a stalled consumer, and the scheduler
\* lets every running request take its next step
SpecStalled ==
    /\ InitStalled /\ [][NextSeq]_vars
    /\ \A p \in Procs : WF_vars(Step(p) \/ QueryStep(p))

----------------------------------------------------------------------------
(* What a call did, read from its frame *)

\* positions of the entries of kind ev made by method by in a frame's log
Entries(f, ev, by) ==
    { k \in 1 .. Len(f.log) : f.log[k].ev = ev /\ f.log[k].by = by }

\* positions of the entries of kind ev in a frame's log
EntriesOf(f, ev) == { k \in 1 .. Len(f.log) : f.log[k].ev = ev }

\* the call of p has returned
Returned(p, op) == proc[p].op = op /\ proc[p].pc = "done"

\* no request is between two of its calls to the store or the sinks
Quiescent == \A p \in Procs : proc[p].pc \in {"idle", "done"}

\* ScheduleCut has returned res to NewSegment
HasRes(p) ==
    /\ proc[p].op = "NewSegment"
    /\ proc[p].pc \notin {"idle", "ns_media", "sc_range", "sc_isprot"}

\* a and b, both of non-zero width, only touch: one ends where the other
\* starts and no span is shared
BoundaryAdjacent(a, b) ==
    /\ a.Start < End(a) /\ b.Start < End(b)
    /\ End(a) = b.Start \/ a.Start = End(b)

\* the store's range query finds s for [start, stop): they share a span, or
\* they touch and the store compares with closed bounds
InRange(s, start, stop) ==
    \/ Max(s.Start, start) < Min(End(s), stop)
    \/ closedRange /\ s.Start <= stop /\ End(s) >= start

----------------------------------------------------------------------------
(* Claims *)

\* C1: when NewSegment, DeleteSegment and ClearSchedule calls run one at a
\* time, no two stored segments share a span of time of non-zero width,
\* whatever their protection flags.
C1_NoTrueOverlap ==
    Quiescent =>
        \A a \in schedule : \A b \in schedule :
            a.ID # b.ID => ~TrueOverlap(a, b)

\* C1 witness: a protected insertion has displaced a segment and the schedule
\* holds two segments.
C1_Witness ==
    /\ Cardinality(schedule) >= 2
    /\ \E p \in Procs :
        /\ Returned(p, "NewSegment")
        /\ proc[p].err = ErrNil
        /\ EntriesOf(proc[p], "delete") # {}

\* C2: two NewSegment calls with truly overlapping intervals never both
\* persist: the segments they saved are never in the store together.
C2_InsertsMutuallyExclusive ==
    \A p \in Procs : \A q \in Procs :
        ( /\ p # q
          /\ proc[p].op = "NewSegment" /\ proc[p].newId # 0
          /\ proc[q].op = "NewSegment" /\ proc[q].newId # 0
          /\ TrueOverlap(proc[p].segment, proc[q].segment) )
        => ~(StoreHas(proc[p].newId) /\ StoreHas(proc[q].newId))

\* C3: NewSegment of an unprotected segment whose ScheduleCut returned a
\* non-empty res fails with ErrSegmentIntersection, having written nothing
\* to the store and sent nothing on either sink.
C3_UnprotectedConflictRejected ==
    \A p \in Procs :
        (HasRes(p) /\ ~proc[p].segment.Protected /\ Len(proc[p].res) > 0)
        => /\ proc[p].pc = "done"
           /\ proc[p].err = ErrSegmentIntersection
           /\ proc[p].log = <<>>

\* C3 witness: an unprotected insertion rejected for a non-empty res.
C3_Witness ==
    \E p \in Procs :
        /\ Returned(p, "NewSegment")
        /\ ~proc[p].segment.Protected
        /\ Len(proc[p].res) > 0
        /\ proc[p].err = ErrSegmentIntersection

\* C4: NewSegment of a protected segment whose res holds a protected segment
\* fails with ErrSegmentIntersection, having deleted, saved and protected
\* nothing and sent nothing on either sink.
C4_ProtectedConflictRejected ==
    \A p \in Procs :
        ( /\ HasRes(p)
          /\ proc[p].segment.Protected
          /\ \E j \in 1 .. Len(proc[p].res) : proc[p].res[j].Protected )
        => /\ proc[p].pc = "done"
           /\ proc[p].err = ErrSegmentIntersection
           /\ proc[p].log = <<>>

\* C4 witness: a protected insertion rejected although res also holds an
\* unprotected segment it could have displaced.
C4_Witness ==
    \E p \in Procs :
        /\ Returned(p, "NewSegment")
        /\ proc[p].segment.Protected
        /\ proc[p].err = ErrSegmentIntersection
        /\ \E j \in 1 .. Len(proc[p].res) : proc[p].res[j].Protected
        /\ \E j \in 1 .. Len(proc[p].res) : ~proc[p].res[j].Protected

\* C5: after a successful NewSegment of a protected segment, no other stored
\* segment truly overlaps the new one, the new segment is stored and its
\* protection flag is set.
C5_ProtectedInsertDisplaces ==
    \A p \in Procs :
        ( /\ Returned(p, "NewSegment")
          /\ proc[p].segment.Protected
          /\ proc[p].err = ErrNil )
        => /\ \A s \in schedule :
                s.ID # proc[p].newId => ~TrueOverlap(s, proc[p].segment)
           /\ [proc[p].segment EXCEPT !.ID = proc[p].newId,
                                      !.Protected = FALSE] \in schedule
           /\ proc[p].newId \in protected

\* C5 witness: a successful protected insertion that displaced a segment.
C5_Witness ==
    \E p \in Procs :
        /\ Returned(p, "NewSegment")
        /\ proc[p].segment.Protected
        /\ proc[p].err = ErrNil
        /\ \E k \in EntriesOf(proc[p], "delete") :
            TrueOverlap(proc[p].log[k].seg, proc[p].segment)

\* C6: a protected NewSegment never deletes a stored segment that only
\* touches the new one, at either end.
C6_BoundaryAdjacentUntouched ==
    \A p \in Procs :
        proc[p].op = "NewSegment" =>
            \A k \in EntriesOf(proc[p], "delete") :
                ~BoundaryAdjacent(proc[p].log[k].seg, proc[p].segment)

\* C7: in a protected NewSegment the signal on protectedSegmentsChan comes
\* after the segment was saved and marked protected, and the payload on
\* allSegmentsChan comes after the signal; a successful call has sent both.
C7_NotifyBeforeSend ==
    \A p \in Procs :
        (proc[p].op = "NewSegment" /\ proc[p].segment.Protected) =>
            /\ \A n \in Entries(proc[p], "notify", "NewSegment") :
                \E s \in EntriesOf(proc[p], "save") :
                    \E r \in EntriesOf(proc[p], "protect") :
                        /\ s < r /\ r < n
                        /\ proc[p].log[r].seg.ID = proc[p].log[s].seg.ID
            /\ \A d \in EntriesOf(proc[p], "send") :
                \E n \in Entries(proc[p], "notify", "NewSegment") : n < d
            /\ (proc[p].pc = "done" /\ proc[p].err = ErrNil) =>
                /\ Cardinality(EntriesOf(proc[p], "send")) = 1
                /\ Cardinality(Entries(proc[p], "notify", "NewSegment")) = 1

\* C7 witness: a successful protected insertion.
C7_Witness ==
    \E p \in Procs :
        /\ Returned(p, "NewSegment")
        /\ proc[p].segment.Protected
        /\ proc[p].err = ErrNil
        /\ EntriesOf(proc[p], "send") # {}

\* C8: a DeleteSegment call that removed a protected segment has sent exactly
\* one signal on protectedSegmentsChan; one that removed an unprotected
\* segment, or failed, has sent none.
C8_DeleteSignalsExactlyOnce ==
    \A p \in Procs :
        Returned(p, "DeleteSegment") =>
            LET removed == EntriesOf(proc[p], "delete")
                signals == Cardinality(EntriesOf(proc[p], "notify"))
            IN IF proc[p].err = ErrNil
                    /\ \E k \in removed : proc[p].log[k].seg.Protected
                 THEN signals = 1
                 ELSE signals = 0

\* C9: a call that has added a segment to the protected set or removed one
\* from it has sent a signal on protectedSegmentsChan when it returns.
C9_ProtectedChangeSignalled ==
    \A p \in Procs :
        ( /\ proc[p].pc = "done"
          /\ \/ EntriesOf(proc[p], "protect") # {}
             \/ \E k \in EntriesOf(proc[p], "delete") :
                    proc[p].log[k].seg.Protected )
        => EntriesOf(proc[p], "notify") # {}

\* C10: a NewSegment call has published its segment on allSegmentsChan
\* exactly once if it saved the segment and returned success, and not at
\* all if it returned an error.
C10_PublishedIffCommitted ==
    \A p \in Procs :
        Returned(p, "NewSegment") =>
            IF proc[p].err = ErrNil
              THEN /\ Cardinality(EntriesOf(proc[p], "send")) = 1
                   /\ EntriesOf(proc[p], "save") # {}
              ELSE EntriesOf(proc[p], "send") = {}

\* C11: allSegmentsChan receives the segments in the order of their saves:
\* of two concurrent NewSegment calls that both succeeded, the one whose
\* SaveSegment came first (it got the smaller id) also sent its payload first.
C11_SentInCommitOrder ==
    \A p \in Procs : \A q \in Procs :
        ( /\ Returned(p, "NewSegment") /\ proc[p].err = ErrNil
          /\ Returned(q, "NewSegment") /\ proc[q].err = ErrNil
          /\ proc[p].newId < proc[q].newId )
        => \E i \in 1 .. Len(sendOrder) : \E j \in 1 .. Len(sendOrder) :
              i < j /\ sendOrder[i] = p /\ sendOrder[j] = q

\* C12: the cuts are validated before any call to the schedule store.  A
\* NewSegment whose beginCut or stopCut is negative or longer than the media
\* returns ErrCutOutOfBounds, one whose cuts are inside the media with
\* beginCut > stopCut returns ErrBeginAfterStop (a faulting media lookup
\* returns its storage error first); either way no range query, save, delete
\* or protect was made and nothing went to a sink.  So every stored segment
\* has 0 <= beginCut <= stopCut <= duration.
C12_CutsValidatedFirst ==
    /\ \A p \in Procs :
        LET f == proc[p]
            s == f.segment
            d == MediaTable[s.MediaID]
            out == s.BeginCut < 0 \/ s.StopCut < 0
                     \/ s.BeginCut > d \/ s.StopCut > d
            inverted == s.BeginCut > s.StopCut
        IN ( /\ f.op = "NewSegment" /\ f.pc # "ns_media"
             /\ s.MediaID \in DOMAIN MediaTable
             /\ out \/ inverted )
           => /\ f.pc = "done"
              /\ f.err \in {IF out THEN ErrCutOutOfBounds
                                    ELSE ErrBeginAfterStop, StorageError}
              /\ f.res = <<>> /\ f.seen = 0 /\ f.newId = 0
              /\ f.log = <<>>
    /\ \A s \in schedule :
        /\ 0 <= s.BeginCut /\ s.BeginCut <= s.StopCut
        /\ s.StopCut <= MediaTable[s.MediaID]

\* a request with beginCut beyond the media was refused with
\* ErrCutOutOfBounds while a segment is stored
C12_Witness ==
    /\ schedule # {}
    /\ \E p \in Procs :
        /\ Returned(p, "NewSegment")
        /\ proc[p].segment.BeginCut > MediaTable[proc[p].segment.MediaID]
        /\ proc[p].err = ErrCutOutOfBounds

C14_RoundTrip ==
    \A p \in Procs :
        (Returned(p, "Segment") /\ proc[p].expect # NoSeg) =>
            LET f == proc[p] IN
            /\ f.err \in {ErrNil, StorageError}
            /\ f.err = ErrNil =>
                  f.res = << [f.expect EXCEPT !.ID = f.id] >>

\* a segment inserted as protected was fetched back
C14_Witness ==
    \E p \in Procs :
        /\ Returned(p, "Segment") /\ proc[p].err = ErrNil
        /\ proc[p].expect # NoSeg /\ proc[p].expect.Protected
        /\ Len(proc[p].res) = 1 /\ proc[p].res[1].Protected

\* C15: a ClearSchedule(from) that returns no error has removed every stored
\* segment with start >= from and nothing else: the segments with
\* start < from are stored as before, protected or not as before.  A
\* ClearSchedule that fails returns the store's error.
C15_ClearFrame ==
    [][ \A p \in Procs :
          (proc[p].pc = "cs_clear" /\ proc'[p].pc = "done") =>
            IF proc'[p].err = ErrNil
              THEN /\ schedule' = { s \in schedule : s.Start < proc[p].from }
                   /\ \A s \in schedule' :
                        (s.ID \in protected') = (s.ID \in protected)
                   /\ protected' \subseteq { s.ID : s \in schedule' }
              ELSE proc'[p].err = StorageError ]_vars

\* a ClearSchedule returned no error, removed a segment and left an earlier,
\* protected one
C15_Witness ==
    \E p \in Procs :
        /\ Returned(p, "ClearSchedule") /\ proc[p].err = ErrNil
        /\ proc[p].log # <<>>
        /\ \E s \in schedule : s.Start < proc[p].from /\ s.ID \in protected

\* C16: a consumer that never reads cannot hold a request: beside a stalled
\* consumer every NewSegment and every DeleteSegment call that has started
\* eventually returns to its caller.
C16_CallsReturn ==
    \A p \in Procs :
        ( /\ proc[p].op \in {"NewSegment", "DeleteSegment"}
          /\ proc[p].pc \notin {"idle", "done"} )
        ~> (proc[p].pc = "done")

\* beside the stalled consumer, with both sinks full, a protected NewSegment
\* has sent its signal and its payload and returned
C16_Witness ==
    /\ consumer = "stalled"
    /\ allSegmentsChan = SinkCapacity /\ protectedSegmentsChan = SinkCapacity
    /\ \E p \in Procs :
        /\ Returned(p, "NewSegment") /\ proc[p].err = ErrNil
        /\ proc[p].segment.Protected

\* C17: when a DeleteSegment of the displacement loop fails with a fault
\* other than ErrSegmentNotFound, the protected NewSegment returns a storage
\* error at once: it saved no segment, set no flag, sent nothing to either
\* sink, and the segments it had deleted before stay deleted.
C17_DeleteFaultAborts ==
    \A p \in Procs :
        (proc[p].op = "NewSegment" /\ proc[p].delErr = StorageError) =>
            LET f == proc[p] IN
            /\ f.pc = "done" /\ f.err = StorageError
            /\ f.newId = 0
            /\ EntriesOf(f, "save") = {} /\ EntriesOf(f, "protect") = {}
            /\ EntriesOf(f, "notify") = {} /\ EntriesOf(f, "send") = {}
            /\ \A k \in EntriesOf(f, "delete") : ~StoreHas(f.log[k].seg.ID)

\* a protected NewSegment was aborted by a faulting DeleteSegment after it
\* had deleted another conflicting segment
C17_Witness ==
    \E p \in Procs :
        /\ Returned(p, "NewSegment") /\ proc[p].delErr = StorageError
        /\ EntriesOf(proc[p], "delete") # {}

\* C18: a conflicting segment that is gone when the displacement loop comes
\* to delete it (DeleteSegment returns ErrSegmentNotFound, a concurrent
\* DeleteSegment or ClearSchedule having removed it after the range query)
\* is skipped.  NewSegment never returns ErrSegmentNotFound, the loop is
\* left early only after a storage fault of DeleteSegment, and a protected
\* NewSegment that succeeded has saved and protected its segment with every
\* segment of res that truly overlaps it gone from the store.
C18_GoneSegmentSkipped ==
    \A p \in Procs :
        proc[p].op = "NewSegment" =>
            LET f == proc[p] IN
            /\ f.err # ErrSegmentNotFound
            /\ (f.pc = "done" /\ f.err # ErrNil /\ f.i \in 1 .. Len(f.res))
                 => f.delErr = StorageError
            /\ (f.pc = "done" /\ f.err = ErrNil /\ f.segment.Protected)
                 => /\ EntriesOf(f, "save") # {}
                    /\ EntriesOf(f, "protect") # {}
                    /\ \A j \in 1 .. Len(f.res) :
                         TrueOverlap(f.res[j], f.segment)
                         => ~StoreHas(f.res[j].ID)

\* a protected NewSegment succeeded over two truly overlapping segments: it
\* deleted one, and found the other already removed by a concurrent
\* DeleteSegment or ClearSchedule
C18_Witness ==
    \E p \in Procs : \E q \in Procs :
        /\ Returned(p, "NewSegment") /\ proc[p].err = ErrNil
        /\ proc[p].segment.Protected
        /\ Len(proc[p].res) = 2
        /\ \A j \in 1 .. 2 : TrueOverlap(proc[p].res[j], proc[p].segment)
        /\ Cardinality(EntriesOf(proc[p], "delete")) = 1
        /\ proc[q].op \in {"DeleteSegment", "ClearSchedule"}
        /\ \E k \in EntriesOf(proc[q], "delete") : \E j \in 1 .. 2 :
               proc[q].log[k].seg.ID = proc[p].res[j].ID

\* C19: a segment submitted as protected is never displaced by another
\* NewSegment: the displacement loop of a call deletes no segment that is
\* protected, and none that another call, still running or returned without
\* an error, saved for a request with protected = true, the time between
\* that call's SaveSegment and its ProtectSegment included.
C19_ProtectedNeverDisplaced ==
    \A p \in Procs :
        proc[p].op = "NewSegment" =>
            \A k \in EntriesOf(proc[p], "delete") :
                LET row == proc[p].log[k].seg IN
                /\ ~row.Protected
                /\ \A q \in Procs \ {p} :
                     ~ ( /\ proc[q].op = "NewSegment"
                         /\ proc[q].segment.Protected
                         /\ proc[q].newId = row.ID
                         /\ proc[q].pc = "done" => proc[q].err = ErrNil )

\* C20: save and protect are all or nothing: when NewSegment has returned
\* an error, the store holds no segment that this call saved; after a
\* ProtectSegment that faulted no unprotected copy is left.
C20_SaveProtectAllOrNothing ==
    \A p \in Procs :
        (Returned(p, "NewSegment") /\ proc[p].err # ErrNil) =>
            \A k \in EntriesOf(proc[p], "save") :
                ~StoreHas(proc[p].log[k].seg.ID)
====
